---- MODULE Spec2Model ----
(***************************************************************************)
(* Model of the validation-task part of documents/admin.py:                *)
(*   - DocumentAdmin.assign_validation_task, the bulk admin action (form   *)
(*     display, rejected submission, and the apply phase as the sequence   *)
(*     of database statements it issues, each committed on its own: the    *)
(*     handler opens no transaction and catches no exception);             *)
(*   - AssignValidationTaskForm validation (documents/forms.py);           *)
(*   - ValidationTaskAdmin.get_queryset and has_add_permission.            *)
(* Requests are handled by independent workers, so the statements of two   *)
(* submissions may interleave.                                             *)
(***************************************************************************)
EXTENDS Integers, FiniteSets, Sequences, TLC

VARIABLES
    auth_user,   \* User table: user -> [is_superuser, groups]
    tag_due,     \* Tag table: tag -> due_date (None when the tag has none)
    doc_tags,    \* Document.tags through table: doc -> tag -> number of rows
    doc_row,     \* Document row: doc -> the request whose copy was saved last
    tasks,       \* ValidationTask table and its documents relation, by pk
    due_seen,    \* history: the tag's due_date read when task pk was inserted
    req          \* the requests: position in the handler, locals, response

vars == <<auth_user, tag_due, doc_tags, doc_row, tasks, due_seen, req>>

----------------------------------------------------------------------------
(* Bounded universe *)

MaxStoredTasks == 2      \* tasks already stored when the policies are exercised

None == "None"          \* Python None: an unset due_date, no request
Blank == ""             \* a field left blank in the POST data

Users == {"alice", "bob"}
Requests == {"r1", "r2"}
Requester == [r \in Requests |-> IF r = "r1" THEN "alice" ELSE "bob"]  \* request.user
PostedUsers == {"alice", Blank, "ghost"}       \* "ghost": pk of no user
Tags == {"urgent", "misc"}
PostedTags == Tags \cup {Blank, "notag"}       \* "notag": pk of no tag
Dates == {"2024-06-01"}
Groups == {"Staff", "Clerks"}
Notes == {Blank, "please review"}
Documents == {1, 2}                            \* rows of Document.objects
DocIds == Documents \cup {999}                 \* 999 resolves to no document
Selections == {{1, 2}, {2, 999}, {999}}        \* the posted _selected_action lists

----------------------------------------------------------------------------
(* forms.py: AssignValidationTaskForm *)

\* The fields whose validation fails (form.errors).  _selected_action is a
\* required CharField, the two ModelChoiceFields are required and must name
\* a row of their queryset, note is not required.
\* Variant: assigned_to declared with required=False and never looked up.
FormErrorsNoAssignee(selected, assigned_to, tag, note) ==
    (IF selected = {} THEN {"_selected_action"} ELSE {})
    \cup (IF tag \notin Tags THEN {"tag"} ELSE {})

FormErrors(selected, assigned_to, tag, note) ==
    (IF selected = {} THEN {"_selected_action"} ELSE {})
    \cup (IF assigned_to \notin Users THEN {"assigned_to"} ELSE {})
    \cup (IF tag \notin Tags THEN {"tag"} ELSE {})

is_valid(selected, assigned_to, tag, note) ==
    FormErrors(selected, assigned_to, tag, note) = {}

----------------------------------------------------------------------------
(* admin.py: ValidationTaskAdmin *)

InStaffGroup(u) == "Staff" \in auth_user[u].groups

\* Variant: groups.exists() without the filter on the name.
has_add_permission_any_group(u) ==
    IF auth_user[u].is_superuser \/ auth_user[u].groups # {} THEN TRUE ELSE FALSE

has_add_permission(u) ==
    IF auth_user[u].is_superuser \/ InStaffGroup(u) THEN TRUE ELSE FALSE

\* Variant: without the union with the tasks assigned to the requester.
get_queryset_created_only(u) ==
    LET qs == 1..Len(tasks)
    IN  IF ~auth_user[u].is_superuser
        THEN IF InStaffGroup(u)
             THEN {i \in qs : tasks[i].created_by = u}
             ELSE {}
        ELSE qs

\* The pks of the tasks the changelist shows to requester u.
get_queryset(u) ==
    LET qs == 1..Len(tasks)
    IN  IF ~auth_user[u].is_superuser
        THEN IF InStaffGroup(u)
             THEN {i \in qs : tasks[i].created_by = u}
                  \cup {i \in qs : tasks[i].assigned_to = u}
             ELSE {}
        ELSE qs

----------------------------------------------------------------------------
(* admin.py: DocumentAdmin.assign_validation_task *)

IdleRequest ==
    [pc |-> "idle", user |-> None, selected |-> {}, tag |-> None, task |-> 0,
     documents |-> {}, todo |-> {}, cur |-> 0, tagged |-> {},
     response |-> [kind |-> "none"]]

\* due_date=tag.due_date if tag else None
DueDate(tag) == IF tag # Blank THEN tag_due[tag] ELSE None

\* Variant: Document.objects.all(), the filter dropped.
ResolveAll(selected) == Documents

\* Document.objects.filter(pk__in=selected_ids)
Resolve(selected) == {d \in Documents : d \in selected}

\* Variant: a through row inserted on every call.
TagsAfterAddDuplicate(rows, tag) == [rows EXCEPT ![tag] = @ + 1]

\* Variant: doc.tags.set([tag]), the tags rewritten instead of extended.
TagsAfterAddOverwrite(rows, tag) == [t \in DOMAIN rows |-> IF t = tag THEN 1 ELSE 0]

\* doc.tags.add(tag): a through row is inserted unless one is there already
TagsAfterAdd(rows, tag) ==
    IF rows[tag] > 0 THEN rows ELSE [rows EXCEPT ![tag] = 1]

HasTag(d, t) == doc_tags[d][t] > 0

\* messages.success(...) and the redirect that ends the apply phase
Success(n) == [kind |-> "redirect", count |-> n]

\* Variant: the initial data without the assigned_to default.
DisplayFormNoDefault(r, u, selected) ==
    /\ req[r].pc = "idle"
    /\ req' = [req EXCEPT ![r] =
                 [IdleRequest EXCEPT
                    !.pc = "done", !.user = u, !.selected = selected,
                    !.response = [kind |-> "form", bound |-> FALSE,
                                  errors |-> {},
                                  assigned_to |-> Blank,
                                  _selected_action |-> selected]]]
    /\ UNCHANGED <<auth_user, tag_due, doc_tags, doc_row, tasks, due_seen>>

\* The phase without 'apply' in the POST data: the unbound form, pre-filled.
DisplayForm(r, u, selected) ==
    /\ req[r].pc = "idle"
    /\ req' = [req EXCEPT ![r] =
                 [IdleRequest EXCEPT
                    !.pc = "done", !.user = u, !.selected = selected,
                    !.response = [kind |-> "form", bound |-> FALSE,
                                  errors |-> {},
                                  assigned_to |-> u,
                                  _selected_action |-> selected]]]
    /\ UNCHANGED <<auth_user, tag_due, doc_tags, doc_row, tasks, due_seen>>

\* 'apply' with a form that does not validate: falls through to the render
\* of the bound form, which carries the field errors.
ApplyInvalid(r, u, selected, assigned_to, tag, note) ==
    /\ req[r].pc = "idle"
    /\ ~is_valid(selected, assigned_to, tag, note)
    /\ req' = [req EXCEPT ![r] =
                 [IdleRequest EXCEPT
                    !.pc = "done", !.user = u, !.selected = selected,
                    !.response = [kind |-> "form", bound |-> TRUE,
                                  errors |-> FormErrors(selected, assigned_to, tag, note),
                                  assigned_to |-> assigned_to,
                                  _selected_action |-> selected]]]
    /\ UNCHANGED <<auth_user, tag_due, doc_tags, doc_row, tasks, due_seen>>

\* 'apply' with a valid form: ValidationTask.objects.create(...).  The Tag
\* instance whose due_date is copied is the one validation has just loaded.
ApplyCreate(r, u, selected, assigned_to, tag, note) ==
    /\ req[r].pc = "idle"
    /\ is_valid(selected, assigned_to, tag, note)
    /\ tasks' = Append(tasks, [assigned_to |-> assigned_to, created_by |-> u,
                               tag |-> tag, note |-> note,
                               due_date |-> DueDate(tag), documents |-> {}])
    /\ due_seen' = Append(due_seen, tag_due[tag])
    /\ req' = [req EXCEPT ![r] =
                 [IdleRequest EXCEPT
                    !.pc = "link", !.user = u, !.selected = selected,
                    !.tag = tag, !.task = Len(tasks) + 1]]
    /\ UNCHANGED <<auth_user, tag_due, doc_tags, doc_row>>

\* After the link and after each save: the next document of the loop, or the
\* success message once the loop is over.
Continue(rq) ==
    IF rq.todo = {}
    THEN [rq EXCEPT !.pc = "done", !.cur = 0,
                    !.response = Success(Cardinality(rq.documents))]
    ELSE [rq EXCEPT !.pc = "add", !.cur = 0]

\* documents = Document.objects.filter(...); task.documents.set(documents)
\* The queryset is evaluated here, once; the loop and count() reuse its rows.
LinkDocuments(r) ==
    /\ req[r].pc = "link"
    /\ LET documents == Resolve(req[r].selected)
       IN  /\ tasks' = [tasks EXCEPT ![req[r].task].documents = documents]
           /\ req' = [req EXCEPT ![r] = Continue([req[r] EXCEPT !.documents = documents,
                                                     !.todo = documents])]
    /\ UNCHANGED <<auth_user, tag_due, doc_tags, doc_row, due_seen>>

\* doc.tags.add(tag), for the next document of the loop
AddTag(r) ==
    /\ req[r].pc = "add"
    /\ \E d \in req[r].todo :
         /\ doc_tags' = [doc_tags EXCEPT ![d] = TagsAfterAdd(@, req[r].tag)]
         /\ req' = [req EXCEPT ![r].pc = "save", ![r].cur = d,
                               ![r].tagged = @ \cup {d}]
    /\ UNCHANGED <<auth_user, tag_due, doc_row, tasks, due_seen>>

\* doc.save(): the row is written from this request's copy
SaveDocument(r) ==
    /\ req[r].pc = "save"
    /\ doc_row' = [doc_row EXCEPT ![req[r].cur] = r]
    /\ req' = [req EXCEPT ![r] =
                 Continue([req[r] EXCEPT !.todo = @ \ {req[r].cur}])]
    /\ UNCHANGED <<auth_user, tag_due, doc_tags, tasks, due_seen>>

\* A statement after the insert raises (the database refuses it, a save
\* handler throws): nothing catches it and nothing is rolled back.
Fail(r) ==
    /\ req[r].pc \in {"link", "add", "save"}
    /\ req' = [req EXCEPT ![r].pc = "failed", ![r].todo = {}, ![r].cur = 0,
                          ![r].response = [kind |-> "error"]]
    /\ UNCHANGED <<auth_user, tag_due, doc_tags, doc_row, tasks, due_seen>>

----------------------------------------------------------------------------
(* admin.py: TagAdmin, the change form of a tag *)

\* Variant: the due date of a task derived from its tag on every change.
ChangeTagDueDateCascade(t, d) ==
    /\ d # tag_due[t]
    /\ tag_due' = [tag_due EXCEPT ![t] = d]
    /\ tasks' = [i \in 1..Len(tasks) |->
                   IF tasks[i].tag = t THEN [tasks[i] EXCEPT !.due_date = d]
                                       ELSE tasks[i]]
    /\ UNCHANGED <<auth_user, doc_tags, doc_row, due_seen, req>>

ChangeTagDueDate(t, d) ==
    /\ d # tag_due[t]
    /\ tag_due' = [tag_due EXCEPT ![t] = d]
    /\ UNCHANGED <<auth_user, doc_tags, doc_row, tasks, due_seen, req>>

----------------------------------------------------------------------------
(* The workflow *)

Init ==
    /\ auth_user = [u \in Users |->
                      IF u = "alice"
                      THEN [is_superuser |-> FALSE, groups |-> {"Staff"}]
                      ELSE [is_superuser |-> FALSE, groups |-> {"Clerks"}]]
    /\ tag_due = [t \in Tags |-> IF t = "urgent" THEN "2024-06-01" ELSE None]
    /\ doc_tags = [d \in Documents |->
                     [t \in Tags |-> IF d = 1 /\ t = "misc" THEN 1 ELSE 0]]
    /\ doc_row = [d \in Documents |-> None]
    /\ tasks = <<>>
    /\ due_seen = <<>>
    /\ req = [r \in Requests |-> IdleRequest]

Next ==
    \/ \E r \in Requests, s \in Selections : DisplayForm(r, Requester[r], s)
    \/ \E r \in Requests, s \in Selections,
          a \in PostedUsers, t \in PostedTags, n \in Notes :
            ApplyInvalid(r, Requester[r], s, a, t, n)
    \/ \E r \in Requests, s \in Selections,
          a \in PostedUsers, t \in PostedTags, n \in Notes :
            ApplyCreate(r, Requester[r], s, a, t, n)
    \/ \E r \in Requests : LinkDocuments(r)
    \/ \E r \in Requests : AddTag(r)
    \/ \E r \in Requests : SaveDocument(r)
    \/ \E r \in Requests : Fail(r)
    \/ \E t \in Tags, d \in Dates \cup {None} : ChangeTagDueDate(t, d)

Spec == Init /\ [][Next]_vars

----------------------------------------------------------------------------
(* The task changelist and the add permission, over any stored tasks and   *)
(* any role assignment                                                      *)

\* The changelist of ValidationTaskAdmin, as requested by request.user
ListTasks(r) ==
    /\ req[r].pc = "idle"
    /\ req' = [req EXCEPT ![r] =
                 [IdleRequest EXCEPT
                    !.pc = "done", !.user = Requester[r],
                    !.response = [kind |-> "changelist",
                                  result |-> get_queryset(Requester[r])]]]
    /\ UNCHANGED <<auth_user, tag_due, doc_tags, doc_row, tasks, due_seen>>

\* The admin asks whether request.user may add a ValidationTask
CheckAddPermission(r) ==
    /\ req[r].pc = "idle"
    /\ req' = [req EXCEPT ![r] =
                 [IdleRequest EXCEPT
                    !.pc = "done", !.user = Requester[r],
                    !.response = [kind |-> "add_permission",
                                  allowed |-> has_add_permission(Requester[r])]]]
    /\ UNCHANGED <<auth_user, tag_due, doc_tags, doc_row, tasks, due_seen>>

StoredTasks ==
    [assigned_to : Users, created_by : Users, tag : {"misc"}, note : {Blank},
     due_date : {None}, documents : {{1}}]

StoredTaskLists ==
    UNION {[1..n -> StoredTasks] : n \in 0..MaxStoredTasks}

InitPolicy ==
    /\ auth_user \in [Users -> [is_superuser : BOOLEAN, groups : SUBSET Groups]]
    /\ tag_due = [t \in Tags |-> IF t = "urgent" THEN "2024-06-01" ELSE None]
    /\ doc_tags = [d \in Documents |->
                     [t \in Tags |-> IF d = 1 /\ t = "misc" THEN 1 ELSE 0]]
    /\ doc_row = [d \in Documents |-> None]
    /\ tasks \in StoredTaskLists
    /\ due_seen = [i \in 1..Len(tasks) |-> tasks[i].due_date]
    /\ req = [r \in Requests |-> IdleRequest]

NextPolicy ==
    \/ \E r \in Requests : ListTasks(r)
    \/ \E r \in Requests : CheckAddPermission(r)

PolicySpec == InitPolicy /\ [][NextPolicy]_vars

----------------------------------------------------------------------------
(* Properties *)

\* The apply phase of request r ran to its success message.
Applied(r) == req[r].pc = "done" /\ req[r].response.kind = "redirect"

\* The task request r inserted.
TaskOf(r) == tasks[req[r].task]

\* C1: every apply submission that validates inserts exactly one task (the
\* tasks are as many as the validated submissions, each with its own), and
\* once the submission has completed the task is linked to exactly the
\* selected ids that are existing documents, which is the count reported.
C1_OneTaskLinkedToResolved ==
    /\ Len(tasks) = Cardinality({r \in Requests : req[r].task # 0})
    /\ \A r1, r2 \in Requests :
         r1 # r2 /\ req[r1].task # 0 => req[r1].task # req[r2].task
    /\ \A r \in Requests :
         Applied(r) =>
           /\ req[r].task \in 1..Len(tasks)
           /\ TaskOf(r).documents = req[r].selected \cap Documents
           /\ req[r].response.count = Cardinality(req[r].selected \cap Documents)

C1_Witness ==
    \E r \in Requests :
      /\ Applied(r)
      /\ req[r].selected = {2, 999}
      /\ TaskOf(r).documents = {2}

\* C2: the creator of every task is a superuser or a member of Staff: a
\* requester who is neither creates no task through the bulk action.
C2_OnlyPermittedCreators ==
    \A i \in 1..Len(tasks) :
      \/ auth_user[tasks[i].created_by].is_superuser
      \/ "Staff" \in auth_user[tasks[i].created_by].groups

\* A request answered with the bound form, that is a rejected submission.
RejectedStep(r) ==
    /\ req[r].pc = "idle"
    /\ req'[r].response.kind = "form"
    /\ req'[r].response.bound

\* C3: a submission that fails validation is answered with the form and its
\* field errors and changes neither the tasks, nor their links, nor any
\* document; and no task is ever stored with an assignee that is not a user
\* or a tag that is not a tag.
C3_RejectedChangesNothing ==
    /\ [][\A r \in Requests :
            RejectedStep(r) =>
              /\ req'[r].pc = "done"
              /\ req'[r].response.errors # {}
              /\ tasks' = tasks
              /\ doc_tags' = doc_tags
              /\ doc_row' = doc_row]_vars
    /\ [](\A i \in 1..Len(tasks) :
            tasks[i].assigned_to \in Users /\ tasks[i].tag \in Tags)

C3_Witness ==
    \E r \in Requests :
      /\ req[r].response.kind = "form"
      /\ req[r].response.bound
      /\ req[r].response.assigned_to = Blank
      /\ "assigned_to" \in req[r].response.errors
      /\ tasks # <<>>

\* C4: whenever a submission that inserted a task has ended, with its success
\* message or with an error, the task is linked to all the documents it
\* resolved and every one of them carries the task's tag.
C4_TaskAtomic ==
    \A r \in Requests :
      req[r].task # 0 /\ req[r].pc \in {"done", "failed"} =>
        /\ TaskOf(r).documents = req[r].selected \cap Documents
        /\ \A d \in TaskOf(r).documents : HasTag(d, req[r].tag)

\* C5: after a completed submission the documents it tagged are the documents
\* linked to its task and each carries the tag; a tag is on a document at
\* most once however often it is applied, and a tag a document already had
\* stays.
C5_TaggedExactlyLinkedOnce ==
    /\ \A r \in Requests :
         Applied(r) =>
           /\ req[r].tagged = TaskOf(r).documents
           /\ \A d \in TaskOf(r).documents : doc_tags[d][req[r].tag] = 1
    /\ \A d \in Documents, t \in Tags : doc_tags[d][t] <= 1
    /\ doc_tags[1]["misc"] = 1

C5_Witness ==
    \E r1, r2 \in Requests :
      /\ r1 # r2
      /\ Applied(r1) /\ Applied(r2)
      /\ req[r1].tag = req[r2].tag
      /\ \E d \in TaskOf(r1).documents \cap TaskOf(r2).documents :
           doc_tags[d][req[r1].tag] = 1

VisibleTo(u) ==
    IF auth_user[u].is_superuser
    THEN 1..Len(tasks)
    ELSE IF "Staff" \in auth_user[u].groups
         THEN {i \in 1..Len(tasks) :
                 tasks[i].created_by = u \/ tasks[i].assigned_to = u}
         ELSE {}

\* C7: the changelist shows a superuser every task, a Staff member who is no
\* superuser exactly the tasks they created or are assigned, anyone else none.
C7_ChangelistScoped ==
    \A r \in Requests :
      req[r].response.kind = "changelist" =>
        req[r].response.result = VisibleTo(req[r].user)

C7_Witness ==
    \E r \in Requests :
      /\ req[r].response.kind = "changelist"
      /\ ~auth_user[req[r].user].is_superuser
      /\ Len(tasks) = 2
      /\ tasks[1].created_by # req[r].user /\ tasks[1].assigned_to = req[r].user
      /\ tasks[2].created_by # req[r].user /\ tasks[2].assigned_to # req[r].user
      /\ req[r].response.result = {1}

\* C8: the add permission is granted exactly to superusers and to members of
\* the Staff group.
C8_AddPermissionIffPrivileged ==
    \A r \in Requests :
      req[r].response.kind = "add_permission" =>
        (req[r].response.allowed
           <=> (auth_user[req[r].user].is_superuser
                  \/ "Staff" \in auth_user[req[r].user].groups))

C8_Witness ==
    \E r1, r2 \in Requests :
      /\ req[r1].response.kind = "add_permission"
      /\ ~req[r1].response.allowed
      /\ auth_user[req[r1].user].groups = {"Clerks"}
      /\ req[r2].response.kind = "add_permission"
      /\ req[r2].response.allowed
      /\ ~auth_user[req[r2].user].is_superuser

\* A request answered with the unbound form, that is a form display.
DisplayStep(r) ==
    /\ req[r].pc = "idle"
    /\ req'[r].response.kind = "form"
    /\ ~req'[r].response.bound

\* C9: a form display changes neither the tasks, nor their links, nor any
\* document, and its form is pre-filled with the requester as assignee and
\* carries the selected ids; a task is inserted only by a step that starts
\* the apply phase of a submission whose assignee and tag validated.
C9_DisplayHasNoEffect ==
    [][/\ \A r \in Requests :
            DisplayStep(r) =>
              /\ tasks' = tasks
              /\ doc_tags' = doc_tags
              /\ doc_row' = doc_row
              /\ req'[r].response.assigned_to = Requester[r]
              /\ req'[r].response._selected_action = req'[r].selected
              /\ req'[r].response.errors = {}
       /\ Len(tasks') # Len(tasks) =>
            /\ Len(tasks') = Len(tasks) + 1
            /\ tasks'[Len(tasks')].assigned_to \in Users
            /\ tasks'[Len(tasks')].tag \in Tags
            /\ \E r \in Requests :
                 /\ req[r].pc = "idle"
                 /\ req'[r].pc = "link"
                 /\ req'[r].task = Len(tasks')]_vars

C9_Witness ==
    \E r \in Requests :
      /\ req[r].response.kind = "form"
      /\ ~req[r].response.bound
      /\ req[r].response.assigned_to = Requester[r]
      /\ req[r].response._selected_action = {2, 999}
      /\ tasks # <<>>

\* C10: when two submissions with different tags have both completed, however
\* their statements interleaved, there are two tasks, each linked to the
\* documents its own selection resolved, and every document linked to both
\* carries both tags.
C10_NothingLostToTheOther ==
    \A r1, r2 \in Requests :
      r1 # r2 /\ Applied(r1) /\ Applied(r2) /\ req[r1].tag # req[r2].tag =>
        /\ Len(tasks) = 2
        /\ req[r1].task # req[r2].task
        /\ TaskOf(r1).documents = req[r1].selected \cap Documents
        /\ TaskOf(r2).documents = req[r2].selected \cap Documents
        /\ \A d \in TaskOf(r1).documents \cap TaskOf(r2).documents :
             HasTag(d, req[r1].tag) /\ HasTag(d, req[r2].tag)

\* Both submissions worked on documents 1 and 2 and each saved one of them
\* last: their loops interleaved.
C10_Witness ==
    /\ Applied("r1") /\ Applied("r2")
    /\ req["r1"].tag # req["r2"].tag
    /\ req["r1"].selected = {1, 2} /\ req["r2"].selected = {1, 2}
    /\ doc_row[1] = "r1" /\ doc_row[2] = "r2"

====
